---- MODULE Spec2Model ----
(***************************************************************************)
(* State-machine model of the MQ131 ozone sensor driver, MQ131.cpp         *)
(*                                                                         *)
(* The driver is single threaded.  sample() and calibrate() are blocking   *)
(* loops around delay(1000); each loop iteration is one step of the model, *)
(* and pc records where the caller is: "new" (constructed, begin() not yet *)
(* called), "idle" (between calls), "s_wait"/"s_stop" (inside sample())    *)
(* and "c_loop" (inside calibrate()).                                      *)
(*                                                                         *)
(* A float is a record: Fin(v) is the finite value of v thousandths (so a  *)
(* resistance is held in milliohms), Inf is IEEE +infinity.                *)
(***************************************************************************)
EXTENDS Integers, FiniteSets, Sequences, TLC

VARIABLES
    \* ---- fields of MQ131Class ----
    model,               \* MQ131Model
    valueRL,             \* load resistance, ohms (uint32_t)
    valueR0,             \* float
    secToRead,           \* uint32_t
    lastValueRs,         \* float, negative while no sample was taken
    secLastStart,        \* long, -1 while the heater is stopped
    temperatureCelsuis,  \* int8_t
    humidityPercent,     \* uint8_t
    \* ---- the board ----
    pinPower,            \* level last written to the heater pin
    millis,              \* the clock, milliseconds
    \* ---- the caller's position and the locals of calibrate() ----
    pc,
    lastRsValue,         \* float
    countReadInRow,      \* uint8_t
    count,               \* uint8_t
    \* ---- observers (no code reads them) ----
    nReads,              \* readRs() calls made by the call in progress
    sampleRaw,           \* ADC code read by the sample() in progress, -1 if none
    runFirst,            \* first reading of the current run of readings with
                         \* one truncated value, during calibrate()
    steady,              \* every reading of this calibrate() was the same
    sampled,             \* some sample() has completed
    hState,              \* "OFF"/"HEATING" by the calls made: startHeater
                         \* gives HEATING, stopHeater and begin (which
                         \* switches the heater off) give OFF
    hStart,              \* clock second of the most recent startHeater while
                         \* HEATING, -1 when OFF
    \* ---- a call of convert() followed on its own ----
    call                 \* its arguments and result, NoCall between calls

vars == << model, valueRL, valueR0, secToRead, lastValueRs, secLastStart,
           temperatureCelsuis, humidityPercent, pinPower, millis, pc,
           lastRsValue, countReadInRow, count,
           nReads, sampleRaw, runFirst, steady, sampled, hState, hStart,
           call >>

fields == << model, valueRL, valueR0, secToRead, lastValueRs, secLastStart,
             temperatureCelsuis, humidityPercent >>
locals == << lastRsValue, countReadInRow, count >>
calObs == << runFirst, steady >>
heatObs == << hState, hStart >>

(***************************************************************************)
(* Bounds of the model                                                     *)
(***************************************************************************)
\* The clock stops the model at this many seconds.
MaxSeconds == 8
\* The clock horizon of the long calibration runs (more than 256 readings).
LongSeconds == 262
\* convert() is called on the whole numbers up to this one.
MaxConvValue == 130

(***************************************************************************)
(* Floats                                                                  *)
(***************************************************************************)
Milli == 1000
Fin(v) == [k |-> "fin", v |-> v]
Inf == [k |-> "inf", v |-> 0]
FloatLt0(x) == x.k = "fin" /\ x.v < 0
FloatGt0(x) == x.k = "inf" \/ x.v > 0
\* Stands for 4294967295, which only ever is compared with truncated readings.
UINT32_MAX == -1
\* (uint32_t)x.  The conversion of a value outside the range of uint32_t is
\* undefined; compilers give 0 or the saturated value.
CastU32(x) == IF x.k = "inf" THEN {0, UINT32_MAX} ELSE {x.v \div Milli}
\* uint8_t increment
IncU8(n) == (n + 1) % 256

(***************************************************************************)
(* MQ131.h is not among the sources: the defaults it sets are modelled     *)
(* from the specification, which gives a positive baseline resistance, a   *)
(* positive warm-up duration per variant, and 5 stable cycles.             *)
(***************************************************************************)
Models == {"LOW_CONCENTRATION", "ETC_CONCENTRATION", "HIGH_CONCENTRATION"}
Units == {"PPM", "PPB", "MG_M3", "UG_M3"}
MQ131_DEFAULT_RL == 1000
MQ131_DEFAULT_STABLE_CYCLE == 5
MQ131_DEFAULT_LO_CONCENTRATION_R0 == Fin(1917220)
MQ131_DEFAULT_ETC_CONCENTRATION_R0 == Fin(1917220)
MQ131_DEFAULT_HI_CONCENTRATION_R0 == Fin(235000)
MQ131_DEFAULT_LO_CONCENTRATION_TIME2READ == 2
MQ131_DEFAULT_LH_CONCENTRATION_TIME2READ == 2
MQ131_DEFAULT_HI_CONCENTRATION_TIME2READ == 2
\* the "unset" last measured resistance
Unset == Fin(-1 * Milli)

(***************************************************************************)
(* Inputs                                                                  *)
(***************************************************************************)
\* analogRead() results: 0 (no voltage), 256 and 512 (3 RL and RL), 1023
\* (full scale: less than one ohm with RL = 1000).
RawValues == {0, 256, 512, 1023}
RLValues == {1000}
R0Inputs == {Fin(500000)}
TimeInputs == {1, 3}
EnvInputs == {<<25, 70>>}
\* the temperatures and some humidities of setEnv(int8_t, uint8_t), for
\* getEnvCorrectRatio on its own
Int8 == -128..127
EnvHumidities == {0, 30, 59, 60, 61, 85, 100, 255}

(***************************************************************************)
(* Setters and getters                                                     *)
(***************************************************************************)
setR0(_valueR0) == valueR0' = _valueR0

getR0 == valueR0

setTimeToRead(sec) == secToRead' = sec

getTimeToRead == secToRead

setEnv(tempCels, humPc) ==
    /\ temperatureCelsuis' = tempCels
    /\ humidityPercent' = humPc

(***************************************************************************)
(* Heater                                                                  *)
(***************************************************************************)
startHeater ==
    /\ pinPower' = "HIGH"
    /\ secLastStart' = millis \div 1000

\* stopHeater that leaves the pin as it is
stopHeaterKeepsPin ==
    /\ secLastStart' = -1
    /\ UNCHANGED pinPower

stopHeater ==
    /\ pinPower' = "LOW"
    /\ secLastStart' = -1

\* isTimeToRead that does not wait for the warm-up
isTimeToReadNoWarmup == secLastStart >= 0

\* The clock and the durations of the model stay far below 2^31, where the
\* long sum and its comparison as unsigned long do not wrap.
isTimeToRead ==
    IF secLastStart < 0
    THEN FALSE
    ELSE millis \div 1000 >= secLastStart + getTimeToRead

\* delay(1000); the model's clock ends at horizon milliseconds
delay1000(horizon) ==
    /\ millis + 1000 <= horizon
    /\ millis' = millis + 1000

(***************************************************************************)
(* readRs: the voltage on the load resistance is valueSensor / 1024 * 5,   *)
(* kept as the fraction vNum / vDen; the resistance (5 / vRL - 1) * RL is  *)
(* infinite when that voltage is 0.                                        *)
(***************************************************************************)
readRs(valueSensor) ==
    LET vNum == valueSensor * 5
        vDen == 1024
        q == (5 * vDen - vNum) * valueRL
    IN  IF vNum = 0
        THEN Inf
        ELSE Fin((q \div vNum) * Milli + ((q % vNum) * Milli) \div vNum)

(***************************************************************************)
(* A float (binary32) is [m, e] for m * 2^e: 2^23 <= |m| < 2^24 and        *)
(* MinExp <= e <= MaxExp for a normal value, |m| < 2^23 and e = MinExp for *)
(* a subnormal one, [0, 0] for zero and |m| = 2^24, e = MaxExp for an      *)
(* infinity.  An operation whose result is stored in a float is rounded    *)
(* to nearest, ties to even, whether it was computed in float or in        *)
(* double.                                                                 *)
(***************************************************************************)
Two23 == 2^23
Two24 == 2^24
MinExp == -149
MaxExp == 104
FloatInf == [m |-> Two24, e |-> MaxExp]
NoCall == [fn |-> "none"]

Signed(negative, x) == IF negative THEN [m |-> 0 - x.m, e |-> x.e] ELSE x
Magnitude(i) == IF i < 0 THEN 0 - i ELSE i
IsInf(x) == Magnitude(x.m) = Two24

\* m * 2^e for 0 <= m and MinExp <= e, when that is a float or above all
\* finite floats
RECURSIVE Normal(_, _)
Normal(m, e) ==
    IF m = 0 THEN [m |-> 0, e |-> 0]
    ELSE IF m < Two23 /\ e > MinExp THEN Normal(2 * m, e - 1)
    ELSE IF m >= Two24 THEN Normal(m \div 2, e + 1)
    ELSE IF e > MaxExp THEN FloatInf
    ELSE [m |-> m, e |-> e]

\* the float of a small whole number
FloatOf(n) == Normal(n, 0)

\* p / 2^s + (a positive fraction below 2^-s if sticky), to the nearest
\* integer, ties to even, for 0 <= p < 2^31 and s >= 1
RoundShift(p, s, sticky) ==
    IF s > 30
    THEN IF s = 31 /\ (p > 2^30 \/ (p = 2^30 /\ sticky)) THEN 1 ELSE 0
    ELSE LET q == p \div 2^s
             r == p % 2^s
             h == 2^(s - 1)
         IN  IF r > h \/ (r = h /\ (sticky \/ q % 2 = 1)) THEN q + 1 ELSE q

RECURSIVE ExcessBits(_, _)
ExcessBits(n, s) == IF n \div 2^s < Two24 THEN s ELSE ExcessBits(n, s + 1)

\* the float nearest to n * 2^e (plus a positive fraction of 2^e if sticky),
\* for n >= 0: the bits beyond the 24 of a normal value, or beyond the
\* unit 2^MinExp of a subnormal one, are rounded away
Round(n, e, sticky) ==
    LET over == ExcessBits(n, 0)
        under == MinExp - e
        s == IF over >= under THEN over ELSE under
    IN  IF n = 0 THEN [m |-> 0, e |-> 0]
        ELSE IF s <= 0 THEN Normal(n, e)
        ELSE Normal(RoundShift(n, s, sticky), e + s)

\* m * a = q * d + r with 0 <= r < d, by halving a
RECURSIVE MulDiv(_, _, _)
MulDiv(m, a, d) ==
    IF a = 0 THEN [q |-> 0, r |-> 0]
    ELSE LET h == MulDiv(m, a \div 2, d)
             t == 2 * h.r + (a % 2) * m
         IN  [q |-> 2 * h.q + t \div d, r |-> t % d]

(***************************************************************************)
(* convert                                                                 *)
(***************************************************************************)
\* input / 1000.0 = |m| * 2^8 / 125 * 2^(e - 11)
Div1000(x) ==
    LET qr == MulDiv(Magnitude(x.m), 2^8, 125)
    IN  IF x.m = 0 \/ IsInf(x) THEN x
        ELSE Signed(x.m < 0, Round(qr.q, x.e - 11, qr.r > 0))

\* input * 1000.0 = |m| * 125 * 2^(e + 3)
Mul1000(x) ==
    IF x.m = 0 \/ IsInf(x) THEN x
    ELSE Signed(x.m < 0, Round(Magnitude(x.m) * 125, x.e + 3, FALSE))

\* concentration * 48.0 / 22.71108, computed in double and stored in a float
MolarScale(x) ==
    LET a == Magnitude(x.m)
        qr == IF a < Two23
              THEN MulDiv(a, 4800000 * 2^6, 2271108)
              ELSE MulDiv(a, 4800000, 2271108)
    IN  IF x.m = 0 \/ IsInf(x) THEN x
        ELSE Signed(x.m < 0,
                    Round(qr.q, IF a < Two23 THEN x.e - 6 ELSE x.e, qr.r > 0))

\* convert with the two factors of 1000 taken for each other
convertSwapped(input, unitIn, unitOut) ==
    IF unitIn = unitOut
    THEN input
    ELSE CASE unitOut = "PPM" -> Mul1000(input)
           [] unitOut = "PPB" -> Div1000(input)
           [] unitOut = "MG_M3" ->
                MolarScale(IF unitIn = "PPM" THEN input ELSE Div1000(input))
           [] unitOut = "UG_M3" ->
                MolarScale(IF unitIn = "PPB" THEN input ELSE Mul1000(input))
           [] OTHER -> input

convert(input, unitIn, unitOut) ==
    IF unitIn = unitOut
    THEN input
    ELSE CASE unitOut = "PPM" -> Div1000(input)
           [] unitOut = "PPB" -> Mul1000(input)
           [] unitOut = "MG_M3" ->
                MolarScale(IF unitIn = "PPM" THEN input ELSE Div1000(input))
           [] unitOut = "UG_M3" ->
                MolarScale(IF unitIn = "PPB" THEN input ELSE Mul1000(input))
           [] OTHER -> input

(***************************************************************************)
(* getEnvCorrectRatio computes in float.  Each curve is evaluated in       *)
(* double and stored in a float, which gives the float nearest to the      *)
(* decimal value; every later operation has float operands and is rounded  *)
(* to float.                                                               *)
(***************************************************************************)
\* the float nearest to n / 10000
TenThousandths(n) ==
    LET x == Normal(Magnitude(n), 0)
        qr == MulDiv(x.m, 2^15, 10000)
    IN  IF n = 0 THEN x
        ELSE Signed(n < 0, Round(qr.q, x.e - 15, qr.r > 0))

FloatNeg(x) == [m |-> 0 - x.m, e |-> x.e]

\* x + y for x.e >= y.e, both non-zero
FloatAddOrdered(x, y) ==
    LET d == x.e - y.e
        k == IF d - 6 > 30 THEN 30 ELSE d - 6
        a == Magnitude(y.m)
        \* floor(y.m / 2^k) and whether anything was cut off
        fl == IF y.m >= 0 THEN a \div 2^k ELSE 0 - ((a + 2^k - 1) \div 2^k)
        st == a % 2^k # 0
        S == x.m * 64 + fl
        E == x.m * 2^d + y.m
    IN  IF d <= 6
        THEN Signed(E < 0, Round(Magnitude(E), y.e, FALSE))
        ELSE IF S >= 0
             THEN Round(S, x.e - 6, st)
             ELSE Signed(TRUE, Round(IF st THEN 0 - S - 1 ELSE 0 - S, x.e - 6, st))

FloatAdd(x, y) ==
    IF x.m = 0 THEN y
    ELSE IF y.m = 0 THEN x
    ELSE IF x.e >= y.e THEN FloatAddOrdered(x, y) ELSE FloatAddOrdered(y, x)

\* x * k for an int k
FloatMulInt(x, k) ==
    LET a == Magnitude(k)
        m == Magnitude(x.m)
        odd == (a % 2) * m
    IN  IF x.m = 0 \/ k = 0 THEN [m |-> 0, e |-> 0]
        ELSE Signed((x.m < 0) # (k < 0),
                    IF a < 128
                    THEN Round(m * a, x.e, FALSE)
                    ELSE Round(m * (a \div 2) + odd \div 2, x.e + 1, odd % 2 = 1))

\* x / d for an int d in 2..127
FloatDivInt(x, d) ==
    LET p == Magnitude(x.m) * 64
    IN  IF x.m = 0 THEN x
        ELSE Signed(x.m < 0, Round(p \div d, x.e - 6, p % d > 0))

Hratio30(t) == TenThousandths(-141 * t + 15623)
Hratio60(t) == TenThousandths(-119 * t + 13261)
Hratio85(t) == TenThousandths(-103 * t + 11507)

\* the interpolation between the 60% and the 85% curve
UpperBranch(t, h) ==
    FloatAdd(Hratio60(t),
             FloatDivInt(FloatMulInt(FloatAdd(Hratio85(t), FloatNeg(Hratio60(t))),
                                     h - 60),
                         85 - 60))

\* the lower interpolation divided by 25 as the upper one is
LowerBranchBy25(t, h) ==
    FloatAdd(Hratio30(t),
             FloatDivInt(FloatMulInt(FloatAdd(Hratio60(t), FloatNeg(Hratio30(t))),
                                     h - 30),
                         85 - 60))

\* the interpolation between the 30% and the 60% curve
LowerBranch(t, h) ==
    FloatAdd(Hratio30(t),
             FloatDivInt(FloatMulInt(FloatAdd(Hratio60(t), FloatNeg(Hratio30(t))),
                                     h - 30),
                         60 - 30))

EnvCorrectRatio(t, h) ==
    IF h = 60 /\ t = 20
    THEN TenThousandths(10600)
    ELSE IF h > 60 THEN UpperBranch(t, h) ELSE LowerBranch(t, h)

getEnvCorrectRatio == EnvCorrectRatio(temperatureCelsuis, humidityPercent)

(***************************************************************************)
(* getO3.  The result is 0.0 or the concentration given by the variant's   *)
(* power law scale * ratio ^ exponent, converted from the unit of the fit  *)
(* to the unit asked for; the power is kept as a term (scale and exponent  *)
(* in ten-thousandths, ratio = rs / r0 * env).                             *)
(***************************************************************************)
Zero == [k |-> "zero"]
PowerLaw(scale, exponent, unitIn, unitOut) ==
    [k |-> "conc", scale |-> scale, exponent |-> exponent,
     rs |-> lastValueRs, r0 |-> valueR0, env |-> getEnvCorrectRatio,
     unitIn |-> unitIn, unitOut |-> unitOut]

\* getO3 without the test for an unset resistance
getO3NoSentinel(unit) ==
    CASE model = "LOW_CONCENTRATION" -> PowerLaw(94783, 23348, "PPB", unit)
      [] model = "ETC_CONCENTRATION" -> PowerLaw(238887, 11101, "PPB", unit)
      [] model = "HIGH_CONCENTRATION" -> PowerLaw(81399, 23297, "PPM", unit)
      [] OTHER -> Zero

getO3(unit) ==
    IF FloatLt0(lastValueRs)
    THEN Zero
    ELSE CASE model = "LOW_CONCENTRATION" -> PowerLaw(94783, 23348, "PPB", unit)
           [] model = "ETC_CONCENTRATION" -> PowerLaw(238887, 11101, "PPB", unit)
           [] model = "HIGH_CONCENTRATION" -> PowerLaw(81399, 23297, "PPM", unit)
           [] OTHER -> Zero

(***************************************************************************)
(* The state after construction.  The field initializers are in MQ131.h:   *)
(* the last measured resistance is unset and the heater is not running.    *)
(* valueR0 and secToRead are set by begin() before anything reads them.    *)
(***************************************************************************)
Init ==
    /\ model = "LOW_CONCENTRATION"
    /\ valueRL = MQ131_DEFAULT_RL
    /\ valueR0 = Unset
    /\ secToRead = 0
    /\ lastValueRs = Unset
    /\ secLastStart = -1
    /\ temperatureCelsuis = 20
    /\ humidityPercent = 60
    /\ pinPower = "LOW"
    /\ millis = 0
    /\ pc = "new"
    /\ lastRsValue = Fin(0)
    /\ countReadInRow = 0
    /\ count = 0
    /\ nReads = 0
    /\ sampleRaw = -1
    /\ runFirst = Fin(0)
    /\ steady = FALSE
    /\ sampled = FALSE
    /\ hState = "OFF"
    /\ hStart = -1
    /\ call = NoCall

(***************************************************************************)
(* begin                                                                   *)
(***************************************************************************)
begin(_model, _RL) ==
    /\ model' = _model
    /\ valueRL' = _RL
    /\ CASE _model = "LOW_CONCENTRATION" ->
              /\ setR0(MQ131_DEFAULT_LO_CONCENTRATION_R0)
              /\ setTimeToRead(MQ131_DEFAULT_LO_CONCENTRATION_TIME2READ)
         [] _model = "ETC_CONCENTRATION" ->
              /\ setR0(MQ131_DEFAULT_ETC_CONCENTRATION_R0)
              /\ setTimeToRead(MQ131_DEFAULT_LH_CONCENTRATION_TIME2READ)
         [] _model = "HIGH_CONCENTRATION" ->
              /\ setR0(MQ131_DEFAULT_HI_CONCENTRATION_R0)
              /\ setTimeToRead(MQ131_DEFAULT_HI_CONCENTRATION_TIME2READ)
    /\ pinPower' = "LOW"

Begin ==
    /\ pc \in {"new", "idle"}
    /\ \E m \in Models, rl \in RLValues : begin(m, rl)
    /\ pc' = "idle"
    /\ hState' = "OFF"
    /\ hStart' = -1
    /\ UNCHANGED << call, lastValueRs, secLastStart, temperatureCelsuis,
                    humidityPercent, millis, locals, nReads, sampleRaw,
                    calObs, sampled >>

(***************************************************************************)
(* The calls that return at once                                           *)
(***************************************************************************)
SetR0 ==
    /\ pc = "idle"
    /\ \E r \in R0Inputs : setR0(r)
    /\ UNCHANGED << call, model, valueRL, secToRead, lastValueRs, secLastStart,
                    temperatureCelsuis, humidityPercent, pinPower, millis, pc,
                    locals, nReads, sampleRaw, calObs, sampled, heatObs >>

SetTimeToRead ==
    /\ pc = "idle"
    /\ \E sec \in TimeInputs : setTimeToRead(sec)
    /\ UNCHANGED << call, model, valueRL, valueR0, lastValueRs, secLastStart,
                    temperatureCelsuis, humidityPercent, pinPower, millis, pc,
                    locals, nReads, sampleRaw, calObs, sampled, heatObs >>

SetEnv ==
    /\ pc = "idle"
    /\ \E e \in EnvInputs : setEnv(e[1], e[2])
    /\ UNCHANGED << call, model, valueRL, valueR0, secToRead, lastValueRs,
                    secLastStart, pinPower, millis, pc,
                    locals, nReads, sampleRaw, calObs, sampled, heatObs >>

StartHeater ==
    /\ pc = "idle"
    /\ startHeater
    /\ hState' = "HEATING"
    /\ hStart' = millis \div 1000
    /\ UNCHANGED << call, model, valueRL, valueR0, secToRead, lastValueRs,
                    temperatureCelsuis, humidityPercent, millis, pc,
                    locals, nReads, sampleRaw, calObs, sampled >>

StopHeater ==
    /\ pc = "idle"
    /\ stopHeater
    /\ hState' = "OFF"
    /\ hStart' = -1
    /\ UNCHANGED << call, model, valueRL, valueR0, secToRead, lastValueRs,
                    temperatureCelsuis, humidityPercent, millis, pc,
                    locals, nReads, sampleRaw, calObs, sampled >>

\* getO3, isTimeToRead, getR0 and getTimeToRead assign nothing
Getters ==
    /\ pc = "idle"
    /\ \A u \in Units : getO3(u).k \in {"zero", "conc"}
    /\ isTimeToRead \in BOOLEAN
    /\ getR0 = valueR0
    /\ UNCHANGED vars

\* Time passes between two calls.
Elapse ==
    /\ pc = "idle"
    /\ millis + 500 <= MaxSeconds * 1000
    /\ millis' = millis + 500
    /\ UNCHANGED << call, fields, pinPower, pc, locals, nReads, sampleRaw, calObs,
                    sampled, heatObs >>

(***************************************************************************)
(* sample                                                                  *)
(***************************************************************************)
\* The call is made while the clock leaves room for the warm-up.
SampleStart ==
    /\ pc = "idle"
    /\ millis + secToRead * 1000 <= MaxSeconds * 1000
    /\ startHeater
    /\ pc' = "s_wait"
    /\ nReads' = 0
    /\ sampleRaw' = -1
    /\ hState' = "HEATING"
    /\ hStart' = millis \div 1000
    /\ UNCHANGED << call, model, valueRL, valueR0, secToRead, lastValueRs,
                    temperatureCelsuis, humidityPercent, millis,
                    locals, calObs, sampled >>

SampleWait ==
    /\ pc = "s_wait"
    /\ ~isTimeToRead
    /\ delay1000(MaxSeconds * 1000)
    /\ UNCHANGED << call, fields, pinPower, pc, locals, nReads, sampleRaw, calObs,
                    sampled, heatObs >>

\* the reading of sample() stored as the base resistance as well
SampleReadStoresR0 ==
    /\ pc = "s_wait"
    /\ isTimeToRead
    /\ \E raw \in RawValues :
          /\ lastValueRs' = readRs(raw)
          /\ valueR0' = readRs(raw)
          /\ sampleRaw' = raw
    /\ nReads' = nReads + 1
    /\ pc' = "s_stop"
    /\ UNCHANGED << call, model, valueRL, secToRead, secLastStart,
                    temperatureCelsuis, humidityPercent, pinPower, millis,
                    locals, calObs, sampled, heatObs >>

SampleRead ==
    /\ pc = "s_wait"
    /\ isTimeToRead
    /\ \E raw \in RawValues :
          /\ lastValueRs' = readRs(raw)
          /\ sampleRaw' = raw
    /\ nReads' = nReads + 1
    /\ pc' = "s_stop"
    /\ UNCHANGED << call, model, valueRL, valueR0, secToRead, secLastStart,
                    temperatureCelsuis, humidityPercent, pinPower, millis,
                    locals, calObs, sampled, heatObs >>

SampleStop ==
    /\ pc = "s_stop"
    /\ stopHeater
    /\ pc' = "idle"
    /\ sampled' = TRUE
    /\ nReads' = 0
    /\ sampleRaw' = -1
    /\ hState' = "OFF"
    /\ hStart' = -1
    /\ UNCHANGED << call, model, valueRL, valueR0, secToRead, lastValueRs,
                    temperatureCelsuis, humidityPercent, millis,
                    locals, calObs >>

(***************************************************************************)
(* calibrate                                                               *)
(***************************************************************************)
timeToReadConsistency == MQ131_DEFAULT_STABLE_CYCLE

\* the loop condition with < for <=
calibrateLoopsStrict == countReadInRow < timeToReadConsistency

\* the loop condition
calibrateLoops == countReadInRow <= timeToReadConsistency

\* The comparison of the loop body found the two truncated values equal;
\* last and this are the results of (uint32_t)lastRsValue and
\* (uint32_t)value, whatever the casts gave for an infinite operand.
SameTruncated(last, this) == last = this

\* One pass of the loop body on the reading value.
calibrateBody(value, last, this) ==
    /\ IF ~SameTruncated(last, this)
       THEN /\ lastRsValue' = value
            /\ countReadInRow' = 0
       ELSE /\ countReadInRow' = IncU8(countReadInRow)
            /\ UNCHANGED lastRsValue
    /\ count' = IncU8(count)

\* calibrate() that also keeps its reading as the last measured resistance
calibrateStoreKeepsRs ==
    /\ stopHeater
    /\ setR0(lastRsValue)
    /\ setTimeToRead(count)
    /\ lastValueRs' = lastRsValue

\* What calibrate() stores after the loop.
calibrateStore ==
    /\ stopHeater
    /\ setR0(lastRsValue)
    /\ setTimeToRead(count)
    /\ UNCHANGED lastValueRs

CalStart ==
    /\ pc = "idle"
    /\ lastRsValue' = Fin(0)
    /\ countReadInRow' = 0
    /\ count' = 0
    /\ startHeater
    /\ pc' = "c_loop"
    /\ nReads' = 0
    /\ runFirst' = Fin(0)
    /\ steady' = TRUE
    /\ hState' = "HEATING"
    /\ hStart' = millis \div 1000
    /\ UNCHANGED << call, model, valueRL, valueR0, secToRead, lastValueRs,
                    temperatureCelsuis, humidityPercent, millis,
                    sampleRaw, sampled >>

\* One pass of the loop, on a reading among raws.
CalIter(raws, horizon) ==
    /\ pc = "c_loop"
    /\ calibrateLoops
    /\ \E raw \in raws :
          LET value == readRs(raw)
          IN  /\ \E last \in CastU32(lastRsValue), this \in CastU32(value) :
                    /\ calibrateBody(value, last, this)
                    /\ runFirst' = IF nReads > 0 /\ SameTruncated(last, this)
                                   THEN runFirst
                                   ELSE value
              /\ steady' = (nReads = 0 \/ (steady /\ value = runFirst))
    /\ delay1000(horizon)
    /\ nReads' = nReads + 1
    /\ UNCHANGED << call, fields, pinPower, pc, sampleRaw, sampled, heatObs >>

CalEnd ==
    /\ pc = "c_loop"
    /\ ~calibrateLoops
    /\ calibrateStore
    /\ pc' = "idle"
    /\ nReads' = 0
    /\ runFirst' = Fin(0)
    /\ steady' = FALSE
    /\ hState' = "OFF"
    /\ hStart' = -1
    /\ UNCHANGED << call, model, valueRL, temperatureCelsuis, humidityPercent,
                    millis, locals, sampleRaw, sampled >>

(***************************************************************************)
(* Specifications                                                          *)
(***************************************************************************)
Next ==
    \/ Begin
    \/ SetR0
    \/ SetTimeToRead
    \/ SetEnv
    \/ StartHeater
    \/ StopHeater
    \/ Getters
    \/ Elapse
    \/ SampleStart
    \/ SampleWait
    \/ SampleRead
    \/ SampleStop
    \/ CalStart
    \/ CalIter(RawValues, MaxSeconds * 1000)
    \/ CalEnd

Spec == Init /\ [][Next]_vars

\* sample() runs on: delay() returns and the loop goes on.
FairSpec ==
    /\ Spec
    /\ WF_vars(SampleWait)
    /\ WF_vars(SampleRead)
    /\ WF_vars(SampleStop)

\* One calibrate() of a driver begun at clock 0, followed over LongSeconds,
\* on a sensor that never reads 0.
LongInit ==
    /\ model = "LOW_CONCENTRATION"
    /\ valueRL \in RLValues
    /\ valueR0 = MQ131_DEFAULT_LO_CONCENTRATION_R0
    /\ secToRead = MQ131_DEFAULT_LO_CONCENTRATION_TIME2READ
    /\ lastValueRs = Unset
    /\ secLastStart = -1
    /\ temperatureCelsuis = 20
    /\ humidityPercent = 60
    /\ pinPower = "LOW"
    /\ millis = 0
    /\ pc = "idle"
    /\ lastRsValue = Fin(0)
    /\ countReadInRow = 0
    /\ count = 0
    /\ nReads = 0
    /\ sampleRaw = -1
    /\ runFirst = Fin(0)
    /\ steady = FALSE
    /\ sampled = FALSE
    /\ hState = "OFF"
    /\ hStart = -1
    /\ call = NoCall

LongNext ==
    \/ (millis = 0 /\ CalStart)
    \/ CalIter(RawValues \ {0}, LongSeconds * 1000)
    \/ CalEnd

LongSpec == LongInit /\ [][LongNext]_vars

(***************************************************************************)
(* convert() on its own: each call takes a float n * 2^k or -n * 2^k, for  *)
(* a whole number n up to MaxConvValue and k among ConvExponents (whole    *)
(* numbers, subnormal and small normal values, the largest values), and    *)
(* two units, and returns.                                                 *)
(***************************************************************************)
ConvExponents == {-149, -130, -124, -123, 0, 120}
ConvInputs ==
    {Signed(negative, Round(n, k, FALSE)) :
        n \in 0..MaxConvValue, k \in ConvExponents, negative \in BOOLEAN}

driver == << fields, pinPower, millis, pc, locals, nReads, sampleRaw, calObs,
             sampled, heatObs >>

ConvertCall ==
    /\ call = NoCall
    /\ \E input \in ConvInputs, unitIn \in Units, unitOut \in Units :
          call' = [fn |-> "convert", input |-> input, unitIn |-> unitIn,
                   unitOut |-> unitOut,
                   out |-> convert(input, unitIn, unitOut)]
    /\ UNCHANGED driver

ConvertReturn ==
    /\ call # NoCall
    /\ call' = NoCall
    /\ UNCHANGED driver

ConvNext ==
    \/ ConvertCall
    \/ ConvertReturn

ConvSpec == LongInit /\ [][ConvNext]_vars

(***************************************************************************)
(* getEnvCorrectRatio() on its own, after setEnv with any temperature.     *)
(***************************************************************************)
SetEnvAny ==
    /\ call = NoCall
    /\ \E t \in Int8, h \in EnvHumidities : setEnv(t, h)
    /\ UNCHANGED << call, model, valueRL, valueR0, secToRead, lastValueRs,
                    secLastStart, pinPower, millis, pc,
                    locals, nReads, sampleRaw, calObs, sampled, heatObs >>

GetEnvCorrectRatioCall ==
    /\ call = NoCall
    /\ call' = [fn |-> "getEnvCorrectRatio", out |-> getEnvCorrectRatio]
    /\ UNCHANGED driver

GetEnvCorrectRatioReturn ==
    /\ call # NoCall
    /\ call' = NoCall
    /\ UNCHANGED driver

EnvNext ==
    \/ SetEnvAny
    \/ GetEnvCorrectRatioCall
    \/ GetEnvCorrectRatioReturn

EnvSpec == LongInit /\ [][EnvNext]_vars

(***************************************************************************)
(* Steps named by the properties                                           *)
(***************************************************************************)
CalReturns == pc = "c_loop" /\ pc' = "idle"
SampleReads == pc = "s_wait" /\ pc' = "s_stop"
SampleReturns == pc = "s_stop" /\ pc' = "idle"
\* calibrate() so far read one value every time, of non-zero integer part
SteadyNonZero ==
    /\ pc = "c_loop"
    /\ nReads > 0
    /\ steady
    /\ runFirst.k = "fin"
    /\ runFirst.v \div Milli # 0

(***************************************************************************)
(* C1.  As claimed: on a sensor that reads the same value v, of non-zero   *)
(* integer part, every time, calibrate() returns after exactly T + 1       *)
(* readings, with R0 = v and a warm-up duration of T + 1 (T the number of  *)
(* stable cycles).                                                         *)
(***************************************************************************)
C1_ReturnsAfterTPlus1 ==
    [][(CalReturns /\ SteadyNonZero) =>
          /\ nReads = timeToReadConsistency + 1
          /\ valueR0' = runFirst
          /\ secToRead' = timeToReadConsistency + 1]_vars

(***************************************************************************)
(* C1, amended.  On such a sensor calibrate() reads on while it has made   *)
(* fewer than T + 2 readings, never makes another after T + 2, and returns *)
(* with R0 = v and a warm-up duration of T + 2: the first reading differs  *)
(* from the initial 0 and only the T + 1 that follow count as stable.      *)
(***************************************************************************)
C1_ReturnsAfterTPlus2 ==
    [][SteadyNonZero =>
          /\ (nReads < timeToReadConsistency + 2 => ~CalReturns)
          /\ (nReads' = nReads + 1 => nReads < timeToReadConsistency + 2)
          /\ CalReturns =>
                /\ nReads = timeToReadConsistency + 2
                /\ valueR0' = runFirst
                /\ secToRead' = timeToReadConsistency + 2]_vars

\* calibrate() has returned from T + 2 readings of 1000 ohms
C1_Witness ==
    /\ pc = "idle"
    /\ valueR0 = Fin(1000 * Milli)
    /\ secToRead = timeToReadConsistency + 2

(***************************************************************************)
(* C2.  sample() and calibrate() start the heater before they read, read   *)
(* only with the heater pin high and the start time set, and return with   *)
(* the pin low and the start time cleared.                                 *)
(***************************************************************************)
C2_HeaterAroundReadings ==
    [][/\ (pc = "idle" /\ pc' \in {"s_wait", "c_loop"}) =>
              (pinPower' = "HIGH" /\ secLastStart' >= 0 /\ nReads' = 0)
       /\ (nReads' = nReads + 1) =>
              (pinPower = "HIGH" /\ secLastStart >= 0 /\ pinPower' = "HIGH")
       /\ (SampleReturns \/ CalReturns) =>
              (nReads >= 1 /\ pinPower' = "LOW" /\ secLastStart' = -1)]_vars

\* sample() has read, with the heater on, and has not stopped it yet
C2_Witness ==
    /\ pc = "s_stop"
    /\ nReads = 1
    /\ pinPower = "HIGH"

(***************************************************************************)
(* C3.  isTimeToRead() is false while the heater is OFF (never started     *)
(* since begin, or stopped since the most recent start); while HEATING it  *)
(* is true exactly when the clock second is at least the warm-up duration  *)
(* past the most recent start.                                             *)
(***************************************************************************)
C3_TimeGate ==
    /\ hState = "OFF" => ~isTimeToRead
    /\ hState = "HEATING" =>
          (isTimeToRead <=> (millis \div 1000) - hStart >= secToRead)

(***************************************************************************)
(* C4.  sample() makes its one reading at a clock second at least the      *)
(* warm-up duration past its own heater start, returns with that reading   *)
(* as the last measured resistance, and, the loop running on, returns.     *)
(***************************************************************************)
C4_SampleCycle ==
    /\ [][/\ SampleReads =>
                 /\ nReads = 0
                 /\ (millis \div 1000) - hStart >= secToRead
          /\ SampleReturns =>
                 /\ nReads = 1
                 /\ lastValueRs = readRs(sampleRaw)
                 /\ lastValueRs' = lastValueRs]_vars
    /\ (pc = "s_wait" ~> pc = "idle")

\* sample() has read after a warm-up of 3 s that began after second 0
C4_Witness ==
    /\ pc = "s_stop"
    /\ secToRead = 3
    /\ hStart > 0
    /\ (millis \div 1000) - hStart = 3
    /\ lastValueRs = readRs(sampleRaw)

(***************************************************************************)
(* C5.  Between calls, while no sample() has completed, getO3 is 0.0 for   *)
(* every unit, whatever begin, setEnv, setR0, setTimeToRead and            *)
(* calibrate() did.                                                        *)
(***************************************************************************)
C5_ZeroBeforeFirstSample ==
    (pc = "idle" /\ ~sampled) => \A u \in Units : getO3(u) = Zero

\* no sample yet, after setEnv and a calibrate() that stored its results
C5_Witness ==
    /\ pc = "idle"
    /\ ~sampled
    /\ humidityPercent = 70
    /\ secToRead >= timeToReadConsistency + 1
    /\ valueR0 = Fin(3000 * Milli)
    /\ \A u \in Units : getO3(u) = Zero

(***************************************************************************)
(* C6.  No raw reading makes the last measured resistance or R0 infinite   *)
(* (readRs would have to reject a reading of 0).                           *)
(***************************************************************************)
C6_NoInfiniteResistance ==
    /\ lastValueRs.k # "inf"
    /\ valueR0.k # "inf"

(***************************************************************************)
(* C7.  The warm-up duration calibrate() stores is the number of readings  *)
(* it made, however many.                                                  *)
(***************************************************************************)
C7_WarmupIsReadingCount ==
    [][CalReturns => secToRead' = nReads]_vars

(***************************************************************************)
(* C8.  R0 > 0 after begin() and after every calibrate() that returns;     *)
(* stated here for the calibrations that end on finite readings.           *)
(***************************************************************************)
C8_R0Positive ==
    [][((pc = "new" /\ pc' = "idle") \/ (CalReturns /\ runFirst.k = "fin"))
          => FloatGt0(valueR0')]_vars

(***************************************************************************)
(* C9.  calibrate() returns only once the stable-cycle counter is above    *)
(* the threshold, and then R0 is the first reading of the final run of     *)
(* readings with one truncated value.                                      *)
(***************************************************************************)
C9_R0IsFirstOfFinalRun ==
    [][CalReturns =>
          /\ countReadInRow > timeToReadConsistency
          /\ runFirst.k = "fin" => valueR0' = runFirst]_vars

(***************************************************************************)
(* C10.  Only the reading step of sample() changes the last measured       *)
(* resistance, to the resistance of the value read; begin, the setters,    *)
(* the heater calls, the getters and calibrate() leave it as it is.        *)
(***************************************************************************)
C10_OnlySampleWritesRs ==
    [][/\ lastValueRs' # lastValueRs => SampleReads
       /\ SampleReads => \E raw \in RawValues : lastValueRs' = readRs(raw)]_vars

\* a calibrate() has stored its results after a sample(), whose reading stays
C10_Witness ==
    /\ pc = "idle"
    /\ sampled
    /\ secToRead >= timeToReadConsistency + 1
    /\ lastValueRs = Fin(3000 * Milli)
    /\ valueR0 = Fin(1000 * Milli)

(***************************************************************************)
(* Relations between floats used by C11                                    *)
(***************************************************************************)
\* the exponent of the unit in the last place of x
UnitExp(x) == IF x.m = 0 THEN MinExp ELSE x.e
\* y is a float nearest to x / 1000: |y - x / 1000| is at most half a unit
\* in the last place of y, and y has the sign of x or is zero
NearestToThousandth(y, x) ==
    LET k == UnitExp(x) - UnitExp(y)
        n == Magnitude(y.m)
        m == Magnitude(x.m)
    IN  /\ k \in 0..10
        /\ y.m = 0 \/ (y.m < 0 <=> x.m < 0)
        /\ IF k >= 3
           THEN 2 * Magnitude(n * 125 - m * 2^(k - 3)) <= 125
           ELSE 2 * Magnitude(n * 1000 - m * 2^k) <= 1000
\* a and b are one finite float or two neighbouring finite floats
WithinOneUlp(a, b) ==
    /\ ~IsInf(a)
    /\ ~IsInf(b)
    /\ \/ a = b
       \/ a.e = b.e /\ Magnitude(a.m - b.m) = 1
       \/ a.e = b.e + 1 /\ Magnitude(a.m) = Two23 /\ Magnitude(b.m) = Two24 - 1
                        /\ (a.m < 0 <=> b.m < 0)
       \/ b.e = a.e + 1 /\ Magnitude(b.m) = Two23 /\ Magnitude(a.m) = Two24 - 1
                        /\ (a.m < 0 <=> b.m < 0)
\* x is zero or |x| >= 2^-117
RoundTripRange(x) == x.m = 0 \/ (Magnitude(x.m) >= Two23 /\ x.e >= -140)
ConvertedPpbToPpm ==
    /\ call # NoCall
    /\ call.unitIn = "PPB"
    /\ call.unitOut = "PPM"

(***************************************************************************)
(* C11.  As claimed: convert(x, PPB, PPM) is x / 1000, converting it back  *)
(* with convert(., PPM, PPB) gives x again, and convert(x, u, u) is x.     *)
(***************************************************************************)
C11_RoundTripExact ==
    /\ ConvertedPpbToPpm =>
          /\ NearestToThousandth(call.out, call.input)
          /\ convert(call.out, "PPM", "PPB") = call.input
    /\ (call # NoCall /\ call.unitIn = call.unitOut) => call.out = call.input

(***************************************************************************)
(* C11, amended.  convert(x, PPB, PPM) is the float nearest to x / 1000;   *)
(* for x = 0 or |x| >= 2^-117 converting it back gives x or a float next   *)
(* to x; and convert(x, u, u) is x.                                        *)
(***************************************************************************)
C11_RoundTripWithinOneUlp ==
    /\ ConvertedPpbToPpm =>
          /\ NearestToThousandth(call.out, call.input)
          /\ RoundTripRange(call.input) =>
                WithinOneUlp(convert(call.out, "PPM", "PPB"), call.input)
    /\ (call # NoCall /\ call.unitIn = call.unitOut) => call.out = call.input

\* 127 ppb was converted to 0.127 ppm, which converts back to the next float
C11_Witness ==
    /\ ConvertedPpbToPpm
    /\ call.input = FloatOf(127)
    /\ convert(call.out, "PPM", "PPB") = [m |-> FloatOf(127).m + 1, e |-> -17]

(***************************************************************************)
(* C12.  As claimed: getEnvCorrectRatio returns 1.06 at temperature 20 and *)
(* humidity 60; for every other temperature the interpolation between the  *)
(* 60% and 85% curves and the one between the 30% and 60% curves both give *)
(* the 60% curve -0.0119 * t + 1.3261 at humidity 60, and that is the      *)
(* value returned at humidity 60.                                          *)
(***************************************************************************)
EnvReturned == call # NoCall /\ call.fn = "getEnvCorrectRatio"
C12_ContinuousAt60 ==
    EnvReturned =>
        IF temperatureCelsuis = 20
        THEN humidityPercent = 60 => call.out = TenThousandths(10600)
        ELSE /\ UpperBranch(temperatureCelsuis, 60) = Hratio60(temperatureCelsuis)
             /\ LowerBranch(temperatureCelsuis, 60) = Hratio60(temperatureCelsuis)
             /\ humidityPercent = 60 => call.out = Hratio60(temperatureCelsuis)

(***************************************************************************)
(* C12, amended.  getEnvCorrectRatio returns the float 1.06 at temperature *)
(* 20 and humidity 60; for every other temperature the interpolation       *)
(* between the 60% and 85% curves gives the 60% curve at humidity 60, and  *)
(* the one between the 30% and 60% curves, which is the value returned at  *)
(* humidity 60, gives the 60% curve or, at 111 and 115 degrees, a float    *)
(* next to it.                                                             *)
(***************************************************************************)
C12_ContinuousAt60WithinOneUlp ==
    EnvReturned =>
        IF temperatureCelsuis = 20
        THEN humidityPercent = 60 => call.out = TenThousandths(10600)
        ELSE /\ UpperBranch(temperatureCelsuis, 60) = Hratio60(temperatureCelsuis)
             /\ WithinOneUlp(LowerBranch(temperatureCelsuis, 60),
                             Hratio60(temperatureCelsuis))
             /\ temperatureCelsuis \notin {111, 115} =>
                   LowerBranch(temperatureCelsuis, 60) = Hratio60(temperatureCelsuis)
             /\ humidityPercent = 60 =>
                   call.out = LowerBranch(temperatureCelsuis, 60)

\* at 111 degrees and humidity 60 the value returned is next to the 60% curve
C12_Witness ==
    /\ EnvReturned
    /\ temperatureCelsuis = 111
    /\ humidityPercent = 60
    /\ call.out # Hratio60(111)
    /\ WithinOneUlp(call.out, Hratio60(111))

(***************************************************************************)
(* C13.  R0 and the warm-up duration change only in begin, setR0,          *)
(* setTimeToRead and the return of calibrate(): sample(), getO3, setEnv,   *)
(* startHeater, stopHeater and isTimeToRead leave both as they are, so the *)
(* values given to setR0 and setTimeToRead stay in use until one of the    *)
(* writers runs again.                                                     *)
(***************************************************************************)
C13_OnlyWritersChangeCalibration ==
    [][(valueR0' # valueR0 \/ secToRead' # secToRead)
          => (Begin \/ SetR0 \/ SetTimeToRead \/ CalEnd)]_vars

\* a sample() has returned and the values given to setR0 and setTimeToRead
\* are in place
C13_Witness ==
    /\ pc = "idle"
    /\ sampled
    /\ lastValueRs # Unset
    /\ valueR0 \in R0Inputs
    /\ secToRead = 3
    /\ pinPower = "LOW"

(***************************************************************************)
(* C14.  The heater pin is HIGH exactly when the start time is set         *)
(* (secLastStart >= 0), and isTimeToRead() never returns true while the    *)
(* pin is LOW.                                                             *)
(***************************************************************************)
C14_PinIffStarted ==
    /\ pinPower = "HIGH" <=> secLastStart >= 0
    /\ ~(pinPower = "LOW" /\ isTimeToRead)

====
